---- MODULE Spec2Model ----
(***************************************************************************)
(* minecraft-watcher (cmd/minecraft-watcher/main.go) as a state machine.   *)
(*                                                                         *)
(* One process runs main(): loadConfig, connectWithRetry, monitorPlayers.  *)
(* A second goroutine waits for SIGINT/SIGTERM and cancels the context.    *)
(* The server and the network are the environment: every dial, write and   *)
(* read outcome is chosen nondeterministically.  Time is a global clock in *)
(* seconds (Go's monotonic clock), advanced by the sleeps of the connector *)
(* and, while monitoring, in steps of TimeStep seconds.  The time readings *)
(* taken inside one tick (main.go:288-301) are taken at one instant.       *)
(*                                                                         *)
(* A tick of the monitoring loop is split where the code blocks: after the *)
(* request is written (ReadJSON blocks) and, in live mode, after the stop  *)
(* request is written.  Everything between two blocking points is one      *)
(* action.                                                                 *)
(***************************************************************************)
EXTENDS Integers, Sequences, FiniteSets, TLC

VARIABLES
    cfg,             \* *Config returned by loadConfig (environment, fixed)
    pc,              \* position of main()
    now,             \* the clock, seconds
    backoff,         \* connectWithRetry: backoff, seconds
    attempt,         \* connectWithRetry: attempt
    sleeps,          \* durations handed to time.Sleep, in order
    cancelled,       \* ctx.Done() is closed
    startTime,       \* monitorPlayers: startTime
    lastPlayerTime,  \* monitorPlayers: lastPlayerTime
    tickReady,       \* a tick is waiting in ticker.C
    requestID,       \* package variable requestID
    connClosed,      \* conn.Close() was called
    everSucceeded,   \* shutdownServer has returned nil at least once
    everFailed,      \* shutdownServer has returned an error at least once
    ev,              \* what the last step did (observation only)
    lastNonEmpty,    \* when a poll last returned players (observation only)
    calls,           \* concurrent use of sendJSONRPC: each caller's call
    inbox,           \* ... messages on the connection, not yet read
    unanswered       \* ... requests the server has not answered yet

vars == <<cfg, pc, now, backoff, attempt, sleeps, cancelled, startTime,
          lastPlayerTime, tickReady, requestID, connClosed, everSucceeded,
          everFailed, ev, lastNonEmpty, calls, inbox, unanswered>>

----------------------------------------------------------------------------
(* Bounds of the model *)

MaxFailures == 7
MaxElapsed == 135
TimeStep == 15
MaxPlayers == 1
MaxCalls == 3

(* Program constants *)

InitialBackoff == 1
MaxBackoff == 30
SecondsPerMinute == 60
Unset == -1

----------------------------------------------------------------------------
(* Configurations loadConfig can return, and the one it rejects *)

Config(secret, test, idle, uptime, poll) ==
    [Secret |-> secret, TestMode |-> test, IdleTimeoutMinutes |-> idle,
     MinUptimeMinutes |-> uptime, PollIntervalSeconds |-> poll]

Thresholds == {<<0, 0>>, <<1, 1>>, <<1, 2>>}

Configs ==
    { Config("secret", t, th[1], th[2], 30) : t \in BOOLEAN, th \in Thresholds }
    \cup { Config("secret", TRUE, 1, 1, 0), Config("", FALSE, 1, 1, 30) }

----------------------------------------------------------------------------
(* Pure helpers *)

Min(a, b) == IF a <= b THEN a ELSE b

RECURSIVE Pow2(_)
Pow2(n) == IF n <= 0 THEN 1 ELSE 2 * Pow2(n - 1)

\* int(d.Minutes()): conversion to int truncates toward zero
MinutesRounded(d) == (d + 30) \div SecondsPerMinute
Minutes(d) ==
    IF d >= 0 THEN d \div SecondsPerMinute ELSE -((-d) \div SecondsPerMinute)

\* main.go:160-163
NextBackoffUncapped(b) == 2 * b
NextBackoff(b) == IF 2 * b > MaxBackoff THEN MaxBackoff ELSE 2 * b

\* main.go:309
ShutdownPredicateStrict(uptimeMinutes, idleMinutes) ==
    uptimeMinutes > cfg.MinUptimeMinutes /\ idleMinutes > cfg.IdleTimeoutMinutes
ShutdownPredicateEither(uptimeMinutes, idleMinutes) ==
    uptimeMinutes >= cfg.MinUptimeMinutes \/ idleMinutes >= cfg.IdleTimeoutMinutes
ShutdownPredicate(uptimeMinutes, idleMinutes) ==
    uptimeMinutes >= cfg.MinUptimeMinutes /\ idleMinutes >= cfg.IdleTimeoutMinutes

\* main.go:280-288: the value of lastPlayerTime after a poll at time t
LastPlayerTimeNeverReset(ok, playerCount, old, t) == old
LastPlayerTimeOnAnyAnswer(ok, playerCount, old, t) ==
    IF ok THEN t ELSE old
LastPlayerTimeOnFailure(ok, playerCount, old, t) ==
    IF ~ok \/ playerCount > 0 THEN t ELSE old
LastPlayerTimeAfterPoll(ok, playerCount, old, t) ==
    IF ok /\ playerCount > 0 THEN t ELSE old

\* main.go:251: shutdownServer returns before sending anything
NeverDryRun(testMode) == FALSE
IsDryRun(testMode) == testMode

\* main.go:318: the process exits after a successful shutdownServer
NeverExits(testMode) == FALSE
ExitsAfterShutdown(testMode) == ~testMode

\* main.go:313-316: where the loop goes when shutdownServer returns an error
PcGiveUp == "exited"
PcAfterShutdownError == "select"

\* main.go:73: loadConfig rejects the configuration
SecretNeverMissing(c) == FALSE
SecretMissing(c) == c.Secret = ""

\* main.go:281-284: where the loop goes when getPlayers returns an error
PcReconnect == "dial"
PcAfterPollError == "select"

\* main.go:281-284: whether shutdownServer is invoked on a tick whose poll
\* failed, given whether the conditions are met: continue skips the rest
PredicateEvaluatedAnyway(met) == met
InvokedAfterPollError(met) == FALSE

\* main.go:133: main calls connectWithRetry before anything else
PcSkipConnect == "select"
PcAfterStartup == "dial"

\* main.go:267: startTime := time.Now(), read when monitorPlayers begins
ProcessStart(t) == 0
MonitorStart(t) == t

\* main.go:275-277: where monitorPlayers receives from ctx.Done()
CancelCheckedEverywhere == {"select", "awaitPlayers", "awaitStop"}
CancelCheckedAt == {"select"}

\* the status the process ends with: os.Exit(0) at main.go:320, return from
\* main at main.go:143, log.Fatalf at main.go:110, a panic of the runtime
ExitStatus(p) ==
    CASE p = "exited" -> 0
      [] p = "done" -> 0
      [] p = "fatal" -> 1
      [] p = "panicked" -> 2
      [] OTHER -> Unset

----------------------------------------------------------------------------
(* Messages the server can put on the connection in answer to a read *)

\* JSONRPCError values a server sends (the protocol's error handling section)
NoErrorObject == [code |-> 0, message |-> "", data |-> ""]

ErrorObjects ==
    { [code |-> -32601, message |-> "Method not found",
       data |-> "Method not found: minecraft:foo/bar"],
      [code |-> 401, message |-> "Unauthorized", data |-> ""] }

\* JSONRPCResponse as ReadJSON decodes it.  id 0 is what a message without
\* an id (a notification) decodes to.  kind: "players" (result is an array
\* of n players), "null" (result is null), "object" (result is neither),
\* "error" (error object).
Message(id, kind, n) ==
    [id |-> id, kind |-> kind, n |-> n, error |-> NoErrorObject]

ErrorMessage(id, e) == [id |-> id, kind |-> "error", n |-> 0, error |-> e]

NoMessage == Message(0, "none", 0)

Messages(id) ==
    { Message(i, "players", n) : i \in {id, 0}, n \in 0..MaxPlayers }
    \cup { Message(i, k, 0) : i \in {id, 0}, k \in {"null", "object"} }
    \cup { ErrorMessage(i, e) : i \in {id, 0}, e \in ErrorObjects }

\* resp.Error != nil, main.go:228
NeverHasError(msg) == FALSE
HasError(msg) == msg.kind = "error"

----------------------------------------------------------------------------
(* sendJSONRPC: the identifier of a call and the errors it returns *)

\* atomic.AddInt64(&requestID, 1), main.go:210
SameRequestID(r) == r
NewRequestID(r) == r + 1

\* an error value: its text, the JSON-RPC error it reports, the error it wraps
NoError ==
    [text |-> "", code |-> 0, message |-> "", data |-> "", wraps |-> ""]

\* what makes WriteJSON or ReadJSON fail
IOCauses == {"EOF"}

\* fmt.Errorf("failed to send request: %w", err), main.go:220
WriteError(cause) ==
    [NoError EXCEPT !.text = "failed to send request", !.wraps = cause]

\* fmt.Errorf("JSON-RPC error %d: %s (data: %s)", ...), main.go:229-230
RpcError(e) ==
    [text |-> "JSON-RPC error", code |-> e.code, message |-> e.message,
     data |-> e.data, wraps |-> ""]

\* fmt.Errorf("failed to read response: %w", err), main.go:225
ReadErrorAsRpcError(cause) == RpcError(NoErrorObject)
ReadError(cause) ==
    [NoError EXCEPT !.text = "failed to read response", !.wraps = cause]

\* fmt.Errorf("failed to parse players result: %w", err), main.go:244
ParseError ==
    [NoError EXCEPT !.text = "failed to parse players result", !.wraps = "json"]

\* what makes dialer.Dial fail: nothing listens, or the server rejects the
\* Authorization header (HTTP 401, "websocket: bad handshake")
ConnectionRefused == "dial tcp: connection refused"
AuthRejected == "websocket: bad handshake (401)"
DialCauses == {ConnectionRefused, AuthRejected}

\* connectToServer returns the dialer's error as it is, main.go:199-202
DialError(cause) == [NoError EXCEPT !.text = cause]

\* main.go:154-165: where connectWithRetry goes when connectToServer fails
PcExitOnAuthRejected(cause) == IF cause = AuthRejected THEN "fatal" ELSE "sleep"
PcAfterDialError(cause) == "sleep"

\* what shutdownServer does, main.go:250-257
ShutdownAction(testMode) ==
    IF IsDryRun(testMode) THEN "log: TEST MODE: Would execute server shutdown now"
    ELSE "rpc: minecraft:server/stop"

----------------------------------------------------------------------------
(* Observation of one step *)

\* kind: the step; poll, playerCount: the outcome of getPlayers; invoked,
\* shutdown, action: the call of shutdownServer, its outcome and what it did;
\* wrote: the request written; issued: the identifier given to a new call;
\* callId: the identifier of the call that was waiting; respId, msg: the
\* message read; err: the error sendJSONRPC, getPlayers or connectToServer
\* returned (kept while connectWithRetry sleeps on it).
Ev(kind, poll, n, invoked, shutdown, wrote, callId, respId) ==
    [kind |-> kind, poll |-> poll, playerCount |-> n, invoked |-> invoked,
     shutdown |-> shutdown, wrote |-> wrote, callId |-> callId, respId |-> respId,
     issued |-> 0, action |-> "none", msg |-> NoMessage, err |-> NoError]

NoEv == Ev("none", "none", 0, FALSE, "none", "none", 0, 0)

Issued(e, id) == [e EXCEPT !.issued = id]
Did(e, action) == [e EXCEPT !.action = action]
Got(e, msg) == [e EXCEPT !.msg = msg]
Failed(e, err) == [e EXCEPT !.err = err]

\* sendJSONRPC called from two goroutines on the one connection
Callers == {"a", "b"}

\* a caller's call: st is "idle", "reading" (request written, ReadJSON
\* blocks), "ok" (returned &resp, nil) or "failed" (returned nil, err)
Call(st, id, resp, err) == [st |-> st, id |-> id, resp |-> resp, err |-> err]

IdleCall == Call("idle", 0, NoMessage, NoError)

----------------------------------------------------------------------------
Init ==
    /\ cfg \in Configs
    /\ pc = "start"
    /\ now = 0
    /\ backoff = InitialBackoff
    /\ attempt = 1
    /\ sleeps = <<>>
    /\ cancelled = FALSE
    /\ startTime = Unset
    /\ lastPlayerTime = Unset
    /\ tickReady = FALSE
    /\ requestID = 0
    /\ connClosed = FALSE
    /\ everSucceeded = FALSE
    /\ everFailed = FALSE
    /\ ev = NoEv
    /\ lastNonEmpty = Unset
    /\ calls = [c \in Callers |-> IdleCall]
    /\ inbox = <<>>
    /\ unanswered = {}

----------------------------------------------------------------------------
(* main(): startup, main.go:105-131 *)

\* loadConfig rejects an empty secret and log.Fatalf ends the process
ConfigError ==
    /\ pc = "start"
    /\ SecretMissing(cfg)
    /\ pc' = "fatal"
    /\ ev' = Ev("fatal", "none", 0, FALSE, "none", "none", 0, 0)
    /\ UNCHANGED <<lastNonEmpty, calls, inbox, unanswered, cfg, everFailed, now, backoff, attempt, sleeps, cancelled, startTime,
                   lastPlayerTime, tickReady, requestID, connClosed, everSucceeded>>

\* loadConfig succeeds; the signal goroutine is started; connectWithRetry begins
Startup ==
    /\ pc = "start"
    /\ ~SecretMissing(cfg)
    /\ pc' = PcAfterStartup
    /\ ev' = Ev("startup", "none", 0, FALSE, "none", "none", 0, 0)
    /\ UNCHANGED <<lastNonEmpty, calls, inbox, unanswered, cfg, everFailed, now, backoff, attempt, sleeps, cancelled, startTime,
                   lastPlayerTime, tickReady, requestID, connClosed, everSucceeded>>

\* main.go:127-131: the goroutine receives a signal and calls cancel()
Signal ==
    /\ pc \in {"dial", "sleep", "select", "awaitPlayers", "awaitStop"}
    /\ ~cancelled
    /\ cancelled' = TRUE
    /\ ev' = Ev("signal", "none", 0, FALSE, "none", "none", 0, 0)
    /\ UNCHANGED <<lastNonEmpty, calls, inbox, unanswered, cfg, everFailed, pc, now, backoff, attempt, sleeps, startTime,
                   lastPlayerTime, tickReady, requestID, connClosed, everSucceeded>>

----------------------------------------------------------------------------
(* connectWithRetry, main.go:145-171 *)

\* connectToServer fails (refused, handshake, 401, ...): time.Sleep(backoff) begins
DialFail ==
    /\ pc = "dial"
    /\ Len(sleeps) < MaxFailures
    /\ sleeps' = Append(sleeps, backoff)
    /\ \E cause \in DialCauses :
        /\ pc' = PcAfterDialError(cause)
        /\ ev' = Failed(Ev("dialFail", "none", 0, FALSE, "none", "none", 0, 0),
                        DialError(cause))
    /\ UNCHANGED <<lastNonEmpty, calls, inbox, unanswered, cfg, everFailed, now, backoff, attempt, cancelled, startTime,
                   lastPlayerTime, tickReady, requestID, connClosed, everSucceeded>>

\* time.Sleep returns; backoff is doubled and capped, attempt++, next attempt
SleepDone ==
    /\ pc = "sleep"
    /\ now' = now + backoff
    /\ backoff' = NextBackoff(backoff)
    /\ attempt' = attempt + 1
    /\ pc' = "dial"
    /\ ev' = Failed(Ev("sleepDone", "none", 0, FALSE, "none", "none", 0, 0), ev.err)
    /\ UNCHANGED <<lastNonEmpty, calls, inbox, unanswered, cfg, everFailed, sleeps, cancelled, startTime, lastPlayerTime,
                   tickReady, requestID, connClosed, everSucceeded>>

\* connectToServer succeeds; connectWithRetry returns; main calls
\* monitorPlayers, which reads the clock twice and creates the ticker
\* (main.go:133-142, 267-272).  time.NewTicker panics on a non-positive
\* interval; the panic runs main's deferred function, which closes the
\* connection, and ends the process.
DialOK ==
    /\ pc = "dial"
    /\ startTime' = MonitorStart(now)
    /\ lastPlayerTime' = now
    /\ pc' = IF cfg.PollIntervalSeconds > 0 THEN "select" ELSE "panicked"
    /\ connClosed' = (cfg.PollIntervalSeconds <= 0)
    /\ ev' = Ev("dialOK", "none", 0, FALSE, "none", "none", 0, 0)
    /\ UNCHANGED <<lastNonEmpty, calls, inbox, unanswered, cfg, everFailed, now, backoff, attempt, sleeps, cancelled,
                   tickReady, requestID, everSucceeded>>

----------------------------------------------------------------------------
(* The clock and the ticker *)

\* ticker.C holds at most one tick; a tick is sent every PollIntervalSeconds
TicksBy(t) == (t - startTime) \div cfg.PollIntervalSeconds

\* Time passes while the loop is blocked: in a read, or at its select with
\* neither case ready.  A select with a ready case is taken at once.
AdvanceTime ==
    /\ pc \in {"select", "awaitPlayers", "awaitStop"}
    /\ ~(pc = "select" /\ (tickReady \/ cancelled))
    /\ now + TimeStep - startTime <= MaxElapsed
    /\ now' = now + TimeStep
    /\ tickReady' = (tickReady \/ TicksBy(now') > TicksBy(now))
    /\ ev' = NoEv
    /\ UNCHANGED <<lastNonEmpty, calls, inbox, unanswered, cfg, everFailed, pc, backoff, attempt, sleeps, cancelled, startTime,
                   lastPlayerTime, requestID, connClosed, everSucceeded>>

----------------------------------------------------------------------------
(* monitorPlayers, main.go:266-325, with getPlayers, sendJSONRPC and       *)
(* shutdownServer inlined                                                  *)

\* what one tick computes from a parsed answer with n players, main.go:286-309
LastPlayerTimeAfter(n) == LastPlayerTimeAfterPoll(TRUE, n, lastPlayerTime, now)
UptimeMinutes == Minutes(now - startTime)
IdleMinutesAfter(n) == Minutes(now - LastPlayerTimeAfter(n))
ConditionsMet(n) == ShutdownPredicate(UptimeMinutes, IdleMinutesAfter(n))

\* whether the clocks meet the conditions when a poll has failed
ConditionsMetNoPoll ==
    ShutdownPredicate(UptimeMinutes, Minutes(now - lastPlayerTime))

\* getPlayers succeeds iff there is no error object and json.Unmarshal accepts
\* the result for a []Player: an array of players, or null, which leaves the
\* slice empty
ParsesNonEmpty(msg) == ~HasError(msg) /\ msg.kind = "players" /\ msg.n > 0
Parses(msg) == ~HasError(msg) /\ msg.kind \in {"players", "null"}

\* case <-ctx.Done(): monitorPlayers returns, main's deferred function closes
\* the connection and main returns
MonitorStop ==
    /\ pc \in CancelCheckedAt
    /\ cancelled
    /\ pc' = "done"
    /\ connClosed' = TRUE
    /\ ev' = Ev("monitorStop", "none", 0, FALSE, "none", "none", 0, 0)
    /\ UNCHANGED <<lastNonEmpty, calls, inbox, unanswered, cfg, everFailed, now, backoff, attempt, sleeps, cancelled, startTime,
                   lastPlayerTime, tickReady, requestID, everSucceeded>>

\* case <-ticker.C: sendJSONRPC takes an id; WriteJSON fails
PollWriteFail ==
    /\ pc = "select"
    /\ tickReady
    /\ tickReady' = FALSE
    /\ requestID' = NewRequestID(requestID)
    /\ lastPlayerTime' = LastPlayerTimeAfterPoll(FALSE, 0, lastPlayerTime, now)
    /\ pc' = PcAfterPollError
    /\ \E cause \in IOCauses :
         ev' = Failed(Issued(Ev("pollWriteFail", "failed", 0,
                             InvokedAfterPollError(ConditionsMetNoPoll), "none", "none",
                                requestID', 0), requestID'), WriteError(cause))
    /\ UNCHANGED <<lastNonEmpty, calls, inbox, unanswered, cfg, everFailed, now, backoff, attempt, sleeps, cancelled, startTime,
                   connClosed, everSucceeded>>

\* case <-ticker.C: sendJSONRPC takes an id; WriteJSON succeeds; ReadJSON blocks
PollWrite ==
    /\ pc = "select"
    /\ tickReady
    /\ tickReady' = FALSE
    /\ requestID' = NewRequestID(requestID)
    /\ pc' = "awaitPlayers"
    /\ ev' = Issued(Ev("pollWrite", "none", 0, FALSE, "none", "players",
                       requestID', 0), requestID')
    /\ UNCHANGED <<lastNonEmpty, calls, inbox, unanswered, cfg, everFailed, now, backoff, attempt, sleeps, cancelled, startTime,
                   lastPlayerTime, connClosed, everSucceeded>>

\* ReadJSON fails
PollReadFail ==
    /\ pc = "awaitPlayers"
    /\ lastPlayerTime' = LastPlayerTimeAfterPoll(FALSE, 0, lastPlayerTime, now)
    /\ pc' = PcAfterPollError
    /\ \E cause \in IOCauses :
         ev' = Failed(Ev("pollReadFail", "failed", 0,
                             InvokedAfterPollError(ConditionsMetNoPoll), "none", "none", requestID, 0),
                      ReadError(cause))
    /\ UNCHANGED <<lastNonEmpty, calls, inbox, unanswered, cfg, everFailed, now, backoff, attempt, sleeps, cancelled, startTime,
                   tickReady, requestID, connClosed, everSucceeded>>

\* ReadJSON returns a message with an error object, or whose result is not an
\* array of players
PollFault ==
    /\ pc = "awaitPlayers"
    /\ \E msg \in Messages(requestID) :
        /\ ~Parses(msg)
        /\ ev' = Failed(Got(Ev("pollFault", "failed", 0,
                             InvokedAfterPollError(ConditionsMetNoPoll), "none", "none",
                                requestID, msg.id), msg),
                        IF HasError(msg) THEN RpcError(msg.error) ELSE ParseError)
    /\ lastPlayerTime' = LastPlayerTimeAfterPoll(FALSE, 0, lastPlayerTime, now)
    /\ pc' = PcAfterPollError
    /\ UNCHANGED <<lastNonEmpty, calls, inbox, unanswered, cfg, everFailed, now, backoff, attempt, sleeps, cancelled, startTime,
                   tickReady, requestID, connClosed, everSucceeded>>

\* ReadJSON returns a list of players; the shutdown conditions are not met
PollObserve ==
    /\ pc = "awaitPlayers"
    /\ \E msg \in Messages(requestID) :
        /\ Parses(msg)
        /\ ~ConditionsMet(msg.n)
        /\ lastPlayerTime' = LastPlayerTimeAfter(msg.n)
        /\ lastNonEmpty' = (IF msg.n > 0 THEN now ELSE lastNonEmpty)
        /\ ev' = Got(Ev("pollObserve", "ok", msg.n, FALSE, "none", "none",
                         requestID, msg.id), msg)
    /\ pc' = "select"
    /\ UNCHANGED <<calls, inbox, unanswered, cfg, everFailed, now, backoff, attempt, sleeps, cancelled, startTime,
                   tickReady, requestID, connClosed, everSucceeded>>

\* ... the conditions are met and shutdownServer returns nil at once (test mode)
PollShutdownDryRun ==
    /\ pc = "awaitPlayers"
    /\ IsDryRun(cfg.TestMode)
    /\ \E msg \in Messages(requestID) :
        /\ Parses(msg)
        /\ ConditionsMet(msg.n)
        /\ lastPlayerTime' = LastPlayerTimeAfter(msg.n)
        /\ lastNonEmpty' = (IF msg.n > 0 THEN now ELSE lastNonEmpty)
        /\ ev' = Did(Got(Ev("pollShutdownDryRun", "ok", msg.n, TRUE, "ok", "none",
                             requestID, msg.id), msg),
                     ShutdownAction(cfg.TestMode))
    /\ everSucceeded' = TRUE
    /\ pc' = IF ExitsAfterShutdown(cfg.TestMode) THEN "exited" ELSE "select"
    /\ UNCHANGED <<calls, inbox, unanswered, cfg, everFailed, now, backoff, attempt, sleeps, cancelled, startTime,
                   tickReady, requestID, connClosed>>

\* ... the conditions are met, shutdownServer calls sendJSONRPC, WriteJSON fails
PollShutdownWriteFail ==
    /\ pc = "awaitPlayers"
    /\ ~IsDryRun(cfg.TestMode)
    /\ \E msg \in Messages(requestID) :
        /\ Parses(msg)
        /\ ConditionsMet(msg.n)
        /\ lastPlayerTime' = LastPlayerTimeAfter(msg.n)
        /\ lastNonEmpty' = (IF msg.n > 0 THEN now ELSE lastNonEmpty)
        /\ \E cause \in IOCauses :
             ev' = Failed(Issued(Did(Got(Ev("pollShutdownWriteFail", "ok", msg.n, TRUE,
                                            "err", "none", requestID, msg.id), msg),
                                     ShutdownAction(cfg.TestMode)),
                                 NewRequestID(requestID)),
                          WriteError(cause))
    /\ requestID' = NewRequestID(requestID)
    /\ pc' = PcAfterShutdownError
    /\ everFailed' = TRUE
    /\ UNCHANGED <<calls, inbox, unanswered, cfg, now, backoff, attempt, sleeps, cancelled, startTime,
                   tickReady, connClosed, everSucceeded>>

\* ... the conditions are met, the stop request is written, ReadJSON blocks
PollShutdownWrite ==
    /\ pc = "awaitPlayers"
    /\ ~IsDryRun(cfg.TestMode)
    /\ \E msg \in Messages(requestID) :
        /\ Parses(msg)
        /\ ConditionsMet(msg.n)
        /\ lastPlayerTime' = LastPlayerTimeAfter(msg.n)
        /\ lastNonEmpty' = (IF msg.n > 0 THEN now ELSE lastNonEmpty)
        /\ ev' = Issued(Did(Got(Ev("pollShutdownWrite", "ok", msg.n, TRUE, "pending",
                                    "stop", requestID, msg.id), msg),
                             ShutdownAction(cfg.TestMode)),
                         NewRequestID(requestID))
    /\ requestID' = NewRequestID(requestID)
    /\ pc' = "awaitStop"
    /\ UNCHANGED <<calls, inbox, unanswered, cfg, everFailed, now, backoff, attempt, sleeps, cancelled, startTime,
                   tickReady, connClosed, everSucceeded>>

\* the read of the stop answer fails, or the answer carries an error object:
\* shutdownServer returns an error and the loop continues
StopFail ==
    /\ pc = "awaitStop"
    /\ \/ \E cause \in IOCauses :
            ev' = Failed(Ev("stopReadFail", "none", 0, FALSE, "err", "none", requestID, 0),
                         ReadError(cause))
       \/ \E msg \in Messages(requestID) :
            /\ HasError(msg)
            /\ ev' = Failed(Got(Ev("stopFault", "none", 0, FALSE, "err", "none",
                                    requestID, msg.id), msg),
                            RpcError(msg.error))
    /\ pc' = PcAfterShutdownError
    /\ everFailed' = TRUE
    /\ UNCHANGED <<lastNonEmpty, calls, inbox, unanswered, cfg, now, backoff, attempt, sleeps, cancelled, startTime,
                   lastPlayerTime, tickReady, requestID, connClosed, everSucceeded>>

\* any message without an error object: shutdownServer returns nil; os.Exit(0)
StopOK ==
    /\ pc = "awaitStop"
    /\ \E msg \in Messages(requestID) :
        /\ ~HasError(msg)
        /\ ev' = Got(Ev("stopOK", "none", 0, FALSE, "ok", "none", requestID, msg.id), msg)
    /\ everSucceeded' = TRUE
    /\ pc' = IF ExitsAfterShutdown(cfg.TestMode) THEN "exited" ELSE "select"
    /\ UNCHANGED <<lastNonEmpty, calls, inbox, unanswered, cfg, everFailed, now, backoff, attempt, sleeps, cancelled, startTime,
                   lastPlayerTime, tickReady, requestID, connClosed>>

----------------------------------------------------------------------------
Next ==
    \/ ConfigError
    \/ Startup
    \/ Signal
    \/ DialFail
    \/ SleepDone
    \/ DialOK
    \/ AdvanceTime
    \/ MonitorStop
    \/ PollWriteFail
    \/ PollWrite
    \/ PollReadFail
    \/ PollFault
    \/ PollObserve
    \/ PollShutdownDryRun
    \/ PollShutdownWriteFail
    \/ PollShutdownWrite
    \/ StopFail
    \/ StopOK

Spec == Init /\ [][Next]_vars

----------------------------------------------------------------------------
(* Properties *)

Monitoring == pc \in {"select", "awaitPlayers", "awaitStop"}

\* the shutdown conditions, read off the clocks as they stand after a tick
UptimeReached == (now - startTime) \div 60 >= cfg.MinUptimeMinutes
IdleReached == (now - lastPlayerTime) \div 60 >= cfg.IdleTimeoutMinutes

\* C1: shutdownServer is invoked on a tick only if both uptimeMinutes >=
\* MinUptimeMinutes and idleMinutes >= IdleTimeoutMinutes hold on that tick.
C1_ShutdownOnlyWhenBoth ==
    ev.invoked => UptimeReached /\ IdleReached

\* shutdownServer is invoked under thresholds that differ and are not zero
C1_Witness ==
    /\ ev.invoked
    /\ cfg.MinUptimeMinutes = 2
    /\ cfg.IdleTimeoutMinutes = 1

\* C2 as stated: once shutdownServer has returned success it is never
\* invoked again, whatever the dry-run flag.
C2_NeverInvokedAgain ==
    [][everSucceeded => ~ev'.invoked]_vars

\* C2 amended: in live mode, once shutdownServer has returned success it is
\* never invoked again (and nothing else happens: the process has exited).
C2_LiveNeverInvokedAgain ==
    [][(everSucceeded /\ ~cfg.TestMode) => ~ev'.invoked]_vars

\* shutdownServer has returned success in live mode
C2_Witness ==
    /\ ~cfg.TestMode
    /\ everSucceeded
    /\ ev.shutdown = "ok"

\* C3: in dry-run mode no stop request is ever written, the process never
\* exits because of the shutdown decision, and after the action the loop is
\* back at its select, where a ready tick starts the next poll; it leaves
\* the loop only on cancellation.
C3_DryRunHarmless ==
    cfg.TestMode =>
        /\ ev.wrote # "stop"
        /\ pc \notin {"exited", "awaitStop"}
        /\ ev.invoked => pc = "select" /\ ev.shutdown = "ok"
        /\ everSucceeded => \/ pc \in {"select", "awaitPlayers"}
                            \/ pc = "done" /\ cancelled
        /\ (everSucceeded /\ pc = "select" /\ tickReady)
               => ENABLED (PollWrite \/ PollWriteFail)

\* in dry-run mode a poll is issued after the action has been taken
C3_Witness ==
    /\ cfg.TestMode
    /\ everSucceeded
    /\ ev.kind = "pollWrite"

\* C4: after n failed attempts connectWithRetry has slept n times, the k-th
\* sleep lasting min(2^(k-1), 30) seconds; attempt starts at 1 and grows by
\* one per failure; the connection is returned by attempt n+1.
C4_BackoffSequence ==
    /\ \A k \in 1..Len(sleeps) : sleeps[k] = Min(Pow2(k - 1), 30)
    /\ pc = "start" => attempt = 1 /\ sleeps = <<>>
    /\ pc = "dial" => attempt = Len(sleeps) + 1
    /\ pc = "sleep" => attempt = Len(sleeps)
    /\ startTime # Unset => attempt = Len(sleeps) + 1

\* seven failures, then a connection: the sleeps were 1 2 4 8 16 30 30
C4_Witness ==
    /\ pc = "select"
    /\ sleeps = <<1, 2, 4, 8, 16, 30, 30>>

\* C5: lastPlayerTime never moves backward and changes only on a tick whose
\* poll succeeded with at least one player.
C5_LastPlayerTimeMonotone ==
    [][lastPlayerTime # Unset =>
          /\ lastPlayerTime' >= lastPlayerTime
          /\ lastPlayerTime' # lastPlayerTime
                => ev'.poll = "ok" /\ ev'.playerCount > 0]_vars

\* a poll with players has moved lastPlayerTime forward
C5_Witness ==
    /\ ev.poll = "ok"
    /\ ev.playerCount > 0
    /\ lastPlayerTime > startTime

\* C6: a tick whose poll fails leaves startTime and lastPlayerTime unchanged
\* and leaves the loop at its select.
C6_FailedPollFrame ==
    [][ev'.poll = "failed" =>
          /\ startTime' = startTime
          /\ lastPlayerTime' = lastPlayerTime
          /\ pc' = "select"]_vars

\* a poll after the first has failed, at a time later than lastPlayerTime
C6_Witness ==
    /\ ev.poll = "failed"
    /\ requestID >= 2
    /\ ~everSucceeded /\ ~everFailed
    /\ lastPlayerTime = startTime
    /\ now > lastPlayerTime

\* C7: a call completes, or fails, only on a message that bears the call's
\* own identifier.
C7_MatchedById ==
    ev.kind \in {"pollObserve", "pollShutdownDryRun", "pollShutdownWrite",
                 "pollShutdownWriteFail", "pollFault", "stopOK", "stopFault"}
        => ev.respId = ev.callId

\* C8: in live mode, when shutdownServer returns success the process has
\* exited with status 0, and nothing happens after that.
C8_LiveExit ==
    /\ []((~cfg.TestMode /\ ev.shutdown = "ok") =>
              pc = "exited" /\ ExitStatus(pc) = 0)
    /\ [][pc # "exited"]_vars

\* the stop request was answered and the process has exited
C8_Witness ==
    /\ ~cfg.TestMode
    /\ ev.kind = "stopOK"
    /\ pc = "exited"

\* C9: when shutdownServer returns an error in live mode the loop is back at
\* its select, and on every later tick with a successful poll on which the
\* conditions hold shutdownServer is invoked again.
C9_ActionFailureRetried ==
    ~cfg.TestMode =>
        /\ ev.shutdown = "err" => pc = "select"
        /\ (everFailed /\ ev.poll = "ok" /\ UptimeReached /\ IdleReached)
               => ev.invoked

\* shutdownServer is invoked again after it has failed
C9_Witness ==
    /\ ~cfg.TestMode
    /\ everFailed
    /\ ev.invoked
    /\ ev.wrote = "stop"

\* C10: once cancellation is raised while connectWithRetry sleeps between
\* attempts, it makes no further attempt.
C10_CancelStopsRetry ==
    [][(cancelled /\ pc = "sleep") => pc' # "dial"]_vars

----------------------------------------------------------------------------
(* sendJSONRPC, main.go:209-234, called by two goroutines at once.  main   *)
(* itself calls it from one goroutine only; this specification applies the *)
(* function as its use of an atomic counter allows.  The server answers    *)
(* the requests it has received, in any order.                             *)

mainVars == <<cfg, pc, now, backoff, attempt, sleeps, cancelled, startTime,
              lastPlayerTime, tickReady, connClosed, everSucceeded,
              everFailed, ev, lastNonEmpty>>

InitCalls ==
    /\ cfg = Config("secret", TRUE, 0, 0, 30)
    /\ pc = "calls"
    /\ now = 0
    /\ backoff = InitialBackoff
    /\ attempt = 1
    /\ sleeps = <<>>
    /\ cancelled = FALSE
    /\ startTime = 0
    /\ lastPlayerTime = 0
    /\ tickReady = FALSE
    /\ requestID = 0
    /\ connClosed = FALSE
    /\ everSucceeded = FALSE
    /\ everFailed = FALSE
    /\ ev = NoEv
    /\ lastNonEmpty = Unset
    /\ calls = [c \in Callers |-> IdleCall]
    /\ inbox = <<>>
    /\ unanswered = {}

\* main.go:210-219: an identifier is taken and the request is written
CallWrite(c) ==
    /\ calls[c].st = "idle"
    /\ requestID < MaxCalls
    /\ requestID' = NewRequestID(requestID)
    /\ calls' = [calls EXCEPT ![c] = Call("reading", requestID', NoMessage, NoError)]
    /\ unanswered' = unanswered \cup {requestID'}
    /\ UNCHANGED <<mainVars, inbox>>

\* main.go:219-221: WriteJSON fails
CallWriteFail(c) ==
    /\ calls[c].st = "idle"
    /\ requestID < MaxCalls
    /\ requestID' = NewRequestID(requestID)
    /\ \E cause \in IOCauses :
         calls' = [calls EXCEPT ![c] = Call("failed", requestID', NoMessage,
                                             WriteError(cause))]
    /\ UNCHANGED <<mainVars, inbox, unanswered>>

\* the server answers one of the requests it has received
ServerAnswer ==
    /\ \E id \in unanswered :
        /\ unanswered' = unanswered \ {id}
        /\ \E msg \in { m \in Messages(id) : m.id = id } :
             inbox' = Append(inbox, msg)
    /\ UNCHANGED <<mainVars, requestID, calls>>

\* main.go:223-233: ReadJSON delivers the next message of the connection
CallRead(c) ==
    /\ calls[c].st = "reading"
    /\ inbox # <<>>
    /\ inbox' = Tail(inbox)
    /\ calls' = [calls EXCEPT ![c] =
                    IF HasError(Head(inbox))
                    THEN Call("failed", calls[c].id, Head(inbox),
                              RpcError(Head(inbox).error))
                    ELSE Call("ok", calls[c].id, Head(inbox), NoError)]
    /\ UNCHANGED <<mainVars, requestID, unanswered>>

\* main.go:224-226: ReadJSON fails
CallReadFail(c) ==
    /\ calls[c].st = "reading"
    /\ \E cause \in IOCauses :
         calls' = [calls EXCEPT ![c] = Call("failed", calls[c].id, NoMessage,
                                             ReadError(cause))]
    /\ UNCHANGED <<mainVars, requestID, inbox, unanswered>>

\* the caller has used the result and may call again
CallReturn(c) ==
    /\ calls[c].st \in {"ok", "failed"}
    /\ calls' = [calls EXCEPT ![c] = IdleCall]
    /\ UNCHANGED <<mainVars, requestID, inbox, unanswered>>

NextCalls ==
    \/ \E c \in Callers : CallWrite(c)
    \/ \E c \in Callers : CallWriteFail(c)
    \/ ServerAnswer
    \/ \E c \in Callers : CallRead(c)
    \/ \E c \in Callers : CallReadFail(c)
    \/ \E c \in Callers : CallReturn(c)

SpecCalls == InitCalls /\ [][NextCalls]_vars

----------------------------------------------------------------------------

\* C18: a call that returns a response returns the one that bears its own
\* identifier, also when another call is in flight on the connection.
C18_OwnResponse ==
    \A c \in Callers : calls[c].st = "ok" => calls[c].resp.id = calls[c].id

\* C11: once cancellation has been raised and the loop is at its select, no
\* players request is written any more, also when a tick is ready.
C11_NoPollAfterCancel ==
    [][(cancelled /\ pc = "select") => ev'.wrote # "players"]_vars

\* C12: when cancellation was raised and the process has ended, the loop was
\* stopped, the connection is closed and the exit status is 0.
C12_CancelledEndsClosed ==
    (cancelled /\ pc \in {"done", "exited"}) =>
        /\ ExitStatus(pc) = 0
        /\ connClosed

\* C13: whenever the process has ended after a connection was established,
\* the connection has been closed.
C13_ClosedOnEveryExit ==
    (startTime # Unset /\ pc \in {"done", "exited", "panicked"}) => connClosed

\* C14: in live mode the action shutdownServer takes when the conditions
\* are met is the shutdown of the whole system.
C14_SystemPoweroff ==
    (~cfg.TestMode /\ ev.invoked) => ev.action = "exec: sudo systemctl poweroff"

\* C15: with an empty MINECRAFT_MGMT_SECRET the process ends with an error
\* at startup: no connection attempt, no sleep, no clock, no request.
C15_MissingSecretFatal ==
    cfg.Secret = "" =>
        /\ pc \in {"start", "fatal"}
        /\ pc = "fatal" => ExitStatus(pc) = 1
        /\ attempt = 1 /\ sleeps = <<>>
        /\ startTime = Unset /\ lastPlayerTime = Unset
        /\ requestID = 0
        /\ ev.kind \in {"none", "fatal"}

\* the process has ended on the configuration error
C15_Witness ==
    /\ cfg.Secret = ""
    /\ pc = "fatal"

\* C16: the process never ends abnormally, except on the missing credential.
C16_NoCrash ==
    ExitStatus(pc) \in {Unset, 0} \/ (pc = "fatal" /\ cfg.Secret = "")

\* C17: every call of sendJSONRPC, also one whose write fails, is given an
\* identifier one above the last one given; requestID changes in no other
\* step, so identifiers strictly increase and none is given twice.
C17_FreshIdentifiers ==
    /\ [][ev'.kind \in {"pollWrite", "pollWriteFail", "pollShutdownWrite",
                        "pollShutdownWriteFail"}
              => /\ ev'.issued = requestID + 1
                 /\ requestID' = ev'.issued]_vars
    /\ [][requestID' # requestID => ev'.issued > requestID]_vars
    /\ [](ev.issued <= requestID)

\* a third identifier was given, to a call whose write failed
C17_Witness ==
    /\ ev.kind \in {"pollWriteFail", "pollShutdownWriteFail"}
    /\ ev.issued = 3

\* C19: a message with an error object makes the call fail with an error
\* that carries the object's code, message and data; the step is neither a
\* success nor without effect.
C19_ErrorObjectFails ==
    ev.msg.kind = "error" =>
        /\ ev.err.text = "JSON-RPC error"
        /\ ev.err.code = ev.msg.error.code
        /\ ev.err.message = ev.msg.error.message
        /\ ev.err.data = ev.msg.error.data
        /\ ev.poll = "failed" \/ ev.shutdown = "err"
        /\ ev.poll # "ok" /\ ev.shutdown # "ok"
        /\ pc = "select"

\* the stop call has failed on an error object with code 401
C19_Witness ==
    /\ ev.kind = "stopFault"
    /\ ev.msg.error.code = 401
    /\ ev.err.code = 401

\* C20: a failed write or read gives an error that wraps the I/O error under
\* "failed to send request" / "failed to read response"; an error object
\* gives an error that wraps nothing and has another text.
C20_TransportErrorDistinct ==
    /\ ev.kind \in {"pollWriteFail", "pollShutdownWriteFail"}
           => ev.err.text = "failed to send request" /\ ev.err.wraps \in IOCauses
    /\ ev.kind \in {"pollReadFail", "stopReadFail"}
           => ev.err.text = "failed to read response" /\ ev.err.wraps \in IOCauses
    /\ ev.msg.kind = "error"
           => ev.err.wraps = ""
              /\ ev.err.text \notin {"failed to send request", "failed to read response"}

\* the read of a players answer has failed
C20_Witness ==
    /\ ev.kind = "pollReadFail"
    /\ ev.err.wraps = "EOF"

C22_AuthFailureExits ==
    ev.kind = "dialFail" =>
        IF ev.err.text = AuthRejected
        THEN pc = "fatal" /\ ExitStatus(pc) = 1
        ELSE pc = "sleep"

\* C23: on a tick with a successful poll, shutdownServer is invoked iff the
\* whole minutes of uptime reach MinUptimeMinutes and the whole minutes of
\* idle time reach IdleTimeoutMinutes; less than 60 seconds of either never
\* satisfies a threshold of a minute or more.
C23_WholeMinutes ==
    ev.poll = "ok" =>
        /\ ev.invoked <=>
              /\ (now - startTime) \div 60 >= cfg.MinUptimeMinutes
              /\ (now - lastPlayerTime) \div 60 >= cfg.IdleTimeoutMinutes
        /\ (cfg.MinUptimeMinutes >= 1 /\ now - startTime < 60) => ~ev.invoked
        /\ (cfg.IdleTimeoutMinutes >= 1 /\ now - lastPlayerTime < 60) => ~ev.invoked

\* 45 seconds of uptime and idle time under thresholds of one minute: a
\* successful poll without the action
C23_Witness ==
    /\ ev.poll = "ok"
    /\ ~ev.invoked
    /\ cfg.MinUptimeMinutes = 1 /\ cfg.IdleTimeoutMinutes = 1
    /\ now - startTime = 45
    /\ now - lastPlayerTime = 45

\* C24: after a poll at time t that returned players, shutdownServer is not
\* invoked before t + IdleTimeoutMinutes minutes, also when the uptime
\* condition holds.
C24_IdleCountedFromPlayers ==
    (ev.invoked /\ lastNonEmpty # Unset) =>
        now >= lastNonEmpty + 60 * cfg.IdleTimeoutMinutes

\* an empty poll less than a minute after players were seen, with the uptime
\* condition met: the action is not taken
C24_Witness ==
    /\ cfg.IdleTimeoutMinutes = 1
    /\ lastNonEmpty # Unset
    /\ now - lastNonEmpty < 60
    /\ (now - startTime) \div 60 >= cfg.MinUptimeMinutes
    /\ ev.poll = "ok"
    /\ ev.playerCount = 0
    /\ ~ev.invoked

\* C25: while no poll has returned players, a tick with a successful poll
\* invokes shutdownServer iff the whole minutes since startTime have reached
\* both thresholds, so the first such tick invokes it and no earlier one
\* does; in dry-run mode the action succeeds and the loop goes on.
C25_EmptyServerTrigger ==
    (ev.poll = "ok" /\ lastNonEmpty = Unset) =>
        /\ ev.invoked <=>
              /\ (now - startTime) \div 60 >= cfg.MinUptimeMinutes
              /\ (now - startTime) \div 60 >= cfg.IdleTimeoutMinutes
        /\ (ev.invoked /\ cfg.TestMode) => ev.shutdown = "ok" /\ pc = "select"

\* dry-run, thresholds of one and two minutes, no players so far: the action
\* is taken two minutes after the start
C25_Witness ==
    /\ cfg.TestMode
    /\ cfg.IdleTimeoutMinutes = 1 /\ cfg.MinUptimeMinutes = 2
    /\ lastNonEmpty = Unset
    /\ ev.invoked
    /\ now - startTime = 120
    /\ pc = "select"

\* C26: before connectWithRetry has returned a connection neither clock is
\* set and no request has been issued; the clocks are set by the step that
\* returns the connection, and a request is issued only after it.
C26_ConnectFirst ==
    /\ [](startTime = Unset =>
              /\ pc \in {"start", "dial", "sleep", "fatal"}
              /\ lastPlayerTime = Unset
              /\ requestID = 0
              /\ ev.wrote = "none")
    /\ [][(startTime' # startTime \/ (lastPlayerTime = Unset /\ lastPlayerTime' # Unset))
              => (pc = "dial" /\ ev'.kind = "dialOK")]_vars
    /\ [][requestID' # requestID => startTime # Unset]_vars

\* the first players request, after two failed attempts to connect
C26_Witness ==
    /\ ev.kind = "pollWrite"
    /\ requestID = 1
    /\ Len(sleeps) = 2

\* C27: monitorPlayers returns only from its select; while a poll is in
\* flight and cancellation has been raised, the next step of the loop is the
\* outcome of that poll, with the clock update, the predicate and the action
\* of that tick, and the check of ctx.Done() comes after it.
C27_InFlightPollFinishes ==
    /\ [][pc' = "done" => pc = "select" /\ cancelled]_vars
    /\ [][(cancelled /\ pc = "awaitPlayers" /\ pc' # pc) =>
              /\ ev'.kind \in {"pollReadFail", "pollFault", "pollObserve",
                                "pollShutdownDryRun", "pollShutdownWrite",
                                "pollShutdownWriteFail"}
              /\ (ev'.poll = "ok" /\ ev'.playerCount > 0) => lastPlayerTime' = now
              /\ ev'.poll = "ok" =>
                    (ev'.invoked <=>
                        /\ (now - startTime) \div 60 >= cfg.MinUptimeMinutes
                        /\ (now - lastPlayerTime') \div 60 >= cfg.IdleTimeoutMinutes)]_vars
    /\ []((cancelled /\ pc \in {"awaitPlayers", "awaitStop"}) => ~ENABLED MonitorStop)

\* cancellation has just been raised while a poll is in flight whose answer
\* will meet the conditions
C27_Witness ==
    /\ ev.kind = "signal"
    /\ cancelled
    /\ pc = "awaitPlayers"
    /\ ENABLED PollShutdownDryRun

\* C28: a poll is a successful observation iff the message read has no
\* error object and its result is accepted as a list of players (an array of
\* any length, or null, which Go decodes to the empty list); an empty array
\* is a success; a failed write, a failed read, an error object and any
\* other result are failed polls.
C28_PollSuccess ==
    /\ ev.kind \in {"pollWriteFail", "pollReadFail"} => ev.poll = "failed"
    /\ ev.kind \in {"pollFault", "pollObserve", "pollShutdownDryRun",
                     "pollShutdownWrite", "pollShutdownWriteFail"} =>
          /\ ev.poll \in {"ok", "failed"}
          /\ ev.poll = "ok" <=> ev.msg.kind \in {"players", "null"}
          /\ ev.poll = "ok" => ev.playerCount = ev.msg.n
          /\ (ev.msg.kind = "players" /\ ev.msg.n = 0) => ev.poll = "ok"
          /\ ev.msg.kind \in {"error", "object"} => ev.poll = "failed"

\* an empty array was read and the poll succeeded with no players
C28_Witness ==
    /\ ev.kind = "pollObserve"
    /\ ev.msg.kind = "players"
    /\ ev.msg.n = 0
    /\ ev.poll = "ok"

RECURSIVE SumSeq(_)
SumSeq(q) == IF q = <<>> THEN 0 ELSE Head(q) + SumSeq(Tail(q))

\* C29: startTime is set once, by the step that starts monitoring on the
\* connection, to the time of that step; no later step changes it.  It equals
\* the time spent sleeping between attempts, so that time is not part of the
\* uptime the predicate sees.
C29_StartTimeSetOnce ==
    /\ [][startTime # Unset => startTime' = startTime]_vars
    /\ [][startTime' # startTime => ev'.kind = "dialOK" /\ startTime' = now']_vars
    /\ [](startTime # Unset => startTime = SumSeq(sleeps))
    /\ []((ev.poll = "ok" /\ now - SumSeq(sleeps) < 60 * cfg.MinUptimeMinutes)
              => ~ev.invoked)

\* more than a minute went into connecting; the process is more than two
\* minutes old and the server has been idle for a minute, but the uptime is
\* below the threshold of two minutes and the action is not taken
C29_Witness ==
    /\ cfg.MinUptimeMinutes = 2 /\ cfg.IdleTimeoutMinutes = 1
    /\ startTime >= 60
    /\ now >= 120
    /\ now - startTime < 120
    /\ now - lastPlayerTime >= 60
    /\ ev.poll = "ok"
    /\ ~ev.invoked

\* C30: once connectWithRetry has returned, no step dials, sleeps for a
\* retry or returns another connection; a failed poll leaves the loop at its
\* select, and the next tick issues the next poll on the same connection.
C30_OneConnection ==
    /\ [][startTime # Unset =>
              /\ ev'.kind \notin {"dialOK", "dialFail", "sleepDone"}
              /\ pc' \notin {"start", "dial", "sleep"}
              /\ sleeps' = sleeps /\ attempt' = attempt]_vars
    /\ [](ev.poll = "failed" => pc = "select")
    /\ []((ev.poll = "failed" /\ tickReady) => ENABLED (PollWrite \/ PollWriteFail))

\* two polls have failed and a third is attempted
C30_Witness ==
    /\ cfg.MinUptimeMinutes = 0 /\ cfg.IdleTimeoutMinutes = 0
    /\ ~everSucceeded /\ ~everFailed
    /\ ev.kind = "pollWriteFail"
    /\ requestID = 3

\* C31: shutdownServer is invoked only on a tick whose poll succeeded; a
\* tick whose poll failed invokes nothing, writes no stop request and leaves
\* the record of the action's outcomes as it was, however long the uptime
\* and the idle time have grown.
C31_NoActionOnFailedPoll ==
    /\ [](ev.invoked => ev.poll = "ok")
    /\ [][ev'.poll = "failed" =>
              /\ ~ev'.invoked
              /\ ev'.wrote # "stop" /\ ev'.action = "none"
              /\ everSucceeded' = everSucceeded /\ everFailed' = everFailed
              /\ pc' = "select"]_vars

\* a third poll in a row has failed, two minutes after the start, with both
\* conditions met under thresholds of one minute, and nothing was invoked
C31_Witness ==
    /\ cfg.MinUptimeMinutes = 1 /\ cfg.IdleTimeoutMinutes = 1
    /\ ev.poll = "failed"
    /\ ~ev.invoked
    /\ ~everSucceeded /\ ~everFailed
    /\ now - startTime >= 120
    /\ now - lastPlayerTime >= 120

\* C32: shutdownServer is invoked on a tick with a successful poll exactly
\* when the clocks meet both conditions; once they do, they do after every
\* step until a poll returns players; so the conditions hold on every later
\* tick with a successful poll until then, and in dry-run mode each of
\* those ticks invokes shutdownServer again, with success.
C32_PredicateStaysTrue ==
    /\ [](ev.poll = "ok" => (ev.invoked <=> (UptimeReached /\ IdleReached)))
    /\ [][(Monitoring /\ UptimeReached /\ IdleReached) =>
              \/ UptimeReached' /\ IdleReached'
              \/ ev'.poll = "ok" /\ ev'.playerCount > 0]_vars
    /\ [][(Monitoring /\ UptimeReached /\ IdleReached /\ cfg.TestMode
             /\ ev'.poll = "ok" /\ ev'.playerCount = 0)
              => ev'.invoked /\ ev'.shutdown = "ok" /\ pc' = "select"]_vars

\* dry-run, thresholds of a minute: the action was taken with success, no
\* players were seen since, and the answer to the poll now in flight will
\* invoke it again
C32_Witness ==
    /\ cfg.TestMode
    /\ cfg.MinUptimeMinutes = 1 /\ cfg.IdleTimeoutMinutes = 1
    /\ everSucceeded
    /\ lastNonEmpty = Unset
    /\ pc = "awaitPlayers"
    /\ ENABLED PollShutdownDryRun

\* C33: once the connection is closed no request is written, it is not
\* closed again, and it is closed only when monitorPlayers has returned.
C33_CloseAfterLoop ==
    /\ [][connClosed => /\ requestID' = requestID
                        /\ ev'.wrote = "none"
                        /\ ev'.kind # "monitorStop"]_vars
    /\ [](connClosed => pc = "done")
    /\ [][connClosed' # connClosed => ev'.kind = "monitorStop"]_vars

====
